---- MODULE Spec2Model ----
(***************************************************************************)
(* Model of happyeyeballs (src/src/happyeyeballs/__init__.py).             *)
(*                                                                         *)
(*   Spec    the loop of connect_addresses: one action per step of the     *)
(*           loop body, the finally block and the trailing raise.          *)
(*   SpecIL  the generator interleave_family, stepped statement by         *)
(*           statement, applied to an input list and then to its own       *)
(*           output.                                                       *)
(*                                                                         *)
(* A candidate is its index 1..ncand in the sequence handed to             *)
(* connect_addresses; the socket built for candidate i is socket i.  What  *)
(* the network does with a candidate is its fate, drawn in Init.  Time is  *)
(* counted in ticks since `starting` (line 105).                           *)
(***************************************************************************)
EXTENDS Integers, Sequences, FiniteSets, TLC

VARIABLES
    \* ---- connect_addresses ----
    ncand,       \* number of candidates the iterator `addresses` will yield
    fate,        \* fate[i]: what socket_factory/connect/SO_ERROR do for candidate i
    nxt,         \* index of the candidate the next call of next(addresses) yields
    delay,       \* the local `delay` (clamped at line 147)
    timeout,     \* the parameter `timeout`
    clock,       \* time.time() - starting, saturated at MaxClock
    now,         \* the local `now` - starting (line 109)
    made,        \* sockets socket_factory has returned
    closed,      \* sockets on which close() has been called
    selmap,      \* selector.get_map(): the registered sockets
    events,      \* what is left of the list selector.select() returned
    exceptions,  \* the list `exceptions`
    pc,          \* position in connect_addresses
    result,      \* how the try block was left: "none", "return", "break", "TimeoutError", "escaped"
    returned,    \* the socket handed to the caller, 0 when none
    outcome,     \* what the caller sees: "none", "socket", "TimeoutError", "FailedToConnect",
                 \* "ValueError", "escaped"
    \* ---- what connect_addresses has done so far (read by no action's guard) ----
    admitted,    \* the candidates next(addresses) has yielded, in order
    polled,      \* whether selector.select() was called since the last candidate was yielded
    waited,      \* the time spent inside selector.select(), saturated at MaxClock
    closes,      \* closes[i]: how many times close() was called on socket i
    \* ---- interleave_family ----
    il_infos,    \* the argument `infos`
    il_grouped,  \* the dict `grouped`, in insertion order: a sequence of [family, values]
    il_k,        \* position of the for loops (line 35 and line 40)
    il_exhausted,\* the list `exhausted`
    il_out,      \* the elements yielded so far
    il_first,    \* list(interleave_family(x)) of the first application
    il_run,      \* 1 in the first application, 2 in the application to its output
    il_pc        \* position in interleave_family

racer_vars == <<ncand, fate, nxt, delay, timeout, clock, now, made, closed, selmap,
                events, exceptions, pc, result, returned, outcome>>
hist_vars == <<admitted, polled, waited, closes>>
il_vars == <<il_infos, il_grouped, il_k, il_exhausted, il_out, il_first, il_run, il_pc>>
vars == <<racer_vars, hist_vars, il_vars>>

\* ---------------------------------------------------------------- bounds
MaxCand == 3
MaxDelay == 2
MaxTimeout == 2
MaxLen == 4
\* The code reads the clock only in max(0, timeout - elapsed) (line 146): every
\* elapsed time above the largest timeout acts alike, so the clock saturates.
MaxClock == MaxTimeout + 1

\* ---------------------------------------------------------------- helpers
Min(a, b) == IF a <= b THEN a ELSE b
Max_nofloor(a, b) == b   \* variant: remain = timeout - (now - starting)
Max(a, b) == IF a >= b THEN a ELSE b

\* The orders in which a selector may report the ready keys S.
Perms(S) == {f \in [1..Cardinality(S) -> S] : \A x \in S : \E i \in 1..Cardinality(S) : f[i] = x}

\* What can happen to one candidate:
\*   ctor_fail      socket_factory raises
\*   connected      fd.connect returns at once
\*   refused        fd.connect raises an error other than BlockingIOError
\*   pending_ok     BlockingIOError, later write-ready with SO_ERROR = 0
\*   pending_err    BlockingIOError, later write-ready with SO_ERROR # 0
\*   pending_never  BlockingIOError, never write-ready
Fates == {"ctor_fail", "connected", "refused", "pending_ok", "pending_err", "pending_never"}

\* The exception class each failing call raises.
Raised(f) ==
    CASE f = "ctor_fail" -> "OSError"
      [] f = "refused" -> "ConnectionRefusedError"
      [] f \in {"pending_ok", "pending_err", "pending_never"} -> "BlockingIOError"
      [] OTHER -> "none"

\* Line 112: next(addresses) moves the iterator on by one candidate.
Advance_stuck(n) == n   \* variant: the same candidate is yielded again
Advance(n) == n + 1

\* isinstance(exc, cls) for the classes the except clauses name.
IsInstance(exc, cls) == cls = "BaseException" \/ exc = cls

\* exceptions.append(exc): lines 120, 131, 171.  An entry is the candidate
\* the error pertains to, the call that raised it, and whether
\* exc.add_note("Address: ...") was called on it.
Record_front(excs, e) == <<e>> \o excs   \* variant: exceptions.insert(0, exc)
Record(excs, e) == Append(excs, e)

ILIdle ==
    /\ il_infos = <<>> /\ il_grouped = <<>> /\ il_k = 0 /\ il_exhausted = <<>>
    /\ il_out = <<>> /\ il_first = <<>> /\ il_run = 0 /\ il_pc = "idle"

\* State after lines 100-105.
Init ==
    /\ ncand \in 0..MaxCand
    /\ fate \in [1..ncand -> Fates]
    /\ nxt = 1
    /\ delay \in 0..MaxDelay
    /\ timeout \in 0..MaxTimeout
    /\ clock = 0
    /\ now = 0
    /\ made = {}
    /\ closed = {}
    /\ selmap = {}
    /\ events = <<>>
    /\ exceptions = <<>>
    /\ pc = "top"
    /\ result = "none"
    /\ returned = 0
    /\ outcome = "none"
    /\ admitted = <<>>
    /\ polled = FALSE
    /\ waited = 0
    /\ closes = [i \in 1..ncand |-> 0]
    /\ ILIdle

\* Wall-clock time passes while the call runs.
Tick ==
    /\ pc \notin {"done", "idle"}
    /\ clock < MaxClock
    /\ clock' = clock + 1
    /\ UNCHANGED <<ncand, fate, nxt, delay, timeout, now, made, closed, selmap, events,
                   exceptions, pc, result, returned, outcome>>
    /\ UNCHANGED hist_vars
    /\ UNCHANGED il_vars

\* An exception no except clause caught leaves the try block.
Escape ==
    /\ result' = "escaped"
    /\ pc' = "finally"

\* Lines 109-112, iterator exhausted: next(addresses, None) is None.
AdmitNone ==
    /\ pc = "top"
    /\ nxt > ncand
    /\ now' = clock
    /\ pc' = "check"
    /\ UNCHANGED <<ncand, fate, nxt, delay, timeout, clock, made, closed, selmap, events,
                   exceptions, result, returned, outcome>>
    /\ UNCHANGED hist_vars
    /\ UNCHANGED il_vars

\* Lines 109-120: socket_factory raises; the except clause records the error
\* and control falls through to line 142.
AdmitConstructFail ==
    /\ pc = "top"
    /\ nxt <= ncand
    /\ fate[nxt] = "ctor_fail"
    /\ now' = clock
    /\ nxt' = Advance(nxt)
    /\ IF IsInstance(Raised(fate[nxt]), "BaseException")
       THEN /\ exceptions' = Record(exceptions, [cand |-> nxt, src |-> "ctor", note |-> FALSE])
            /\ pc' = "check"
            /\ UNCHANGED result
       ELSE /\ Escape
            /\ UNCHANGED exceptions
    /\ UNCHANGED <<ncand, fate, delay, timeout, clock, made, closed, selmap, events,
                   returned, outcome>>
    /\ admitted' = Append(admitted, nxt)
    /\ polled' = FALSE
    /\ UNCHANGED <<waited, closes>>
    /\ UNCHANGED il_vars

\* AdmitConnected without the `return fd` of line 126: control goes on to
\* line 142.
AdmitConnected_noreturn ==
    /\ pc = "top"
    /\ nxt <= ncand
    /\ fate[nxt] = "connected"
    /\ now' = clock
    /\ nxt' = Advance(nxt)
    /\ made' = made \cup {nxt}
    /\ pc' = "check"
    /\ UNCHANGED <<ncand, fate, delay, timeout, clock, closed, selmap, events,
                   exceptions, outcome, result, returned>>
    /\ admitted' = Append(admitted, nxt)
    /\ polled' = FALSE
    /\ UNCHANGED <<waited, closes>>
    /\ UNCHANGED il_vars

\* Lines 109-126: the socket is built and connect succeeds at once: return fd.
AdmitConnected ==
    /\ pc = "top"
    /\ nxt <= ncand
    /\ fate[nxt] = "connected"
    /\ now' = clock
    /\ nxt' = Advance(nxt)
    /\ made' = made \cup {nxt}
    /\ returned' = nxt
    /\ result' = "return"
    /\ pc' = "finally"
    /\ UNCHANGED <<ncand, fate, delay, timeout, clock, closed, selmap, events,
                   exceptions, outcome>>
    /\ admitted' = Append(admitted, nxt)
    /\ polled' = FALSE
    /\ UNCHANGED <<waited, closes>>
    /\ UNCHANGED il_vars

\* ConnectRaised without the `continue` of line 137: after a connect error
\* control goes on to line 142.
ConnectRaised_nocontinue(i, e) ==
    IF IsInstance(e, "BlockingIOError")
    THEN /\ selmap' = selmap \cup {i}
         /\ pc' = "check"
         /\ UNCHANGED <<result, exceptions, closed, closes>>
    ELSE /\ exceptions' = Record(exceptions, [cand |-> i, src |-> "connect", note |-> TRUE])
         /\ closed' = closed \cup {i}
         /\ closes' = [closes EXCEPT ![i] = @ + 1]
         /\ pc' = "check"
         /\ UNCHANGED <<result, selmap>>

\* Lines 127-137: fd.connect(address) of socket i raised exception e.
\*   except BlockingIOError: register the socket, go on to line 142;
\*   except BaseException:   note, record, close, continue (line 108).
ConnectRaised(i, e) ==
    IF IsInstance(e, "BlockingIOError")
    THEN /\ selmap' = selmap \cup {i}
         /\ pc' = "check"
         /\ UNCHANGED <<result, exceptions, closed, closes>>
    ELSE IF IsInstance(e, "BaseException")
    THEN /\ exceptions' = Record(exceptions, [cand |-> i, src |-> "connect", note |-> TRUE])
         /\ closed' = closed \cup {i}
         /\ closes' = [closes EXCEPT ![i] = @ + 1]
         /\ pc' = "top"
         /\ UNCHANGED <<result, selmap>>
    ELSE /\ Escape
         /\ UNCHANGED <<selmap, exceptions, closed, closes>>

\* Lines 109-128: the socket is built and connect raises BlockingIOError.
AdmitBlocking ==
    /\ pc = "top"
    /\ nxt <= ncand
    /\ fate[nxt] \in {"pending_ok", "pending_err", "pending_never"}
    /\ now' = clock
    /\ nxt' = Advance(nxt)
    /\ made' = made \cup {nxt}
    /\ ConnectRaised(nxt, Raised(fate[nxt]))
    /\ UNCHANGED <<ncand, fate, delay, timeout, clock, events, returned, outcome>>
    /\ admitted' = Append(admitted, nxt)
    /\ polled' = FALSE
    /\ UNCHANGED waited
    /\ UNCHANGED il_vars

\* Lines 109-137: the socket is built and connect raises another error.
AdmitConnectFail ==
    /\ pc = "top"
    /\ nxt <= ncand
    /\ fate[nxt] = "refused"
    /\ now' = clock
    /\ nxt' = Advance(nxt)
    /\ made' = made \cup {nxt}
    /\ ConnectRaised(nxt, Raised(fate[nxt]))
    /\ UNCHANGED <<ncand, fate, delay, timeout, clock, events, returned, outcome>>
    /\ admitted' = Append(admitted, nxt)
    /\ polled' = FALSE
    /\ UNCHANGED waited
    /\ UNCHANGED il_vars

\* Lines 142-143: no pending socket: break.
BreakEmpty ==
    /\ pc = "check"
    /\ Cardinality(selmap) = 0
    /\ result' = "break"
    /\ pc' = "finally"
    /\ UNCHANGED <<ncand, fate, nxt, delay, timeout, clock, now, made, closed, selmap,
                   events, exceptions, returned, outcome>>
    /\ UNCHANGED hist_vars
    /\ UNCHANGED il_vars

\* Lines 145-147: with a timeout, clamp delay to the remaining budget.
ClampDelay ==
    /\ pc = "check"
    /\ Cardinality(selmap) # 0
    /\ delay' = IF timeout # 0 THEN Min(delay, Max(0, timeout - now)) ELSE delay
    /\ pc' = "select"
    /\ UNCHANGED <<ncand, fate, nxt, timeout, clock, now, made, closed, selmap,
                   events, exceptions, result, returned, outcome>>
    /\ UNCHANGED hist_vars
    /\ UNCHANGED il_vars

\* Line 155: selector.select(delay) returns the keys that are write-ready, in
\* the selector's order; with none ready it has waited the whole delay.
Select ==
    /\ pc = "select"
    /\ \E ready \in SUBSET {s \in selmap : fate[s] # "pending_never"} :
       \E order \in Perms(ready) :
       \E d \in 0..delay :
          /\ ready = {} => d = delay
          /\ events' = order
          /\ clock' = Min(clock + d, MaxClock)
          /\ waited' = Min(waited + d, MaxClock)
    /\ pc' = "harvest"
    /\ UNCHANGED <<ncand, fate, nxt, delay, timeout, now, made, closed, selmap,
                   exceptions, result, returned, outcome>>
    /\ polled' = TRUE
    /\ UNCHANGED <<admitted, closes>>
    /\ UNCHANGED il_vars

\* Lines 156-168: the next ready key has SO_ERROR = 0: unregister, return fd.
HarvestConnected ==
    /\ pc = "harvest"
    /\ events # <<>>
    /\ fate[Head(events)] = "pending_ok"
    /\ selmap' = selmap \ {Head(events)}
    /\ returned' = Head(events)
    /\ result' = "return"
    /\ events' = <<>>
    /\ pc' = "finally"
    /\ UNCHANGED <<ncand, fate, nxt, delay, timeout, clock, now, made, closed,
                   exceptions, outcome>>
    /\ UNCHANGED hist_vars
    /\ UNCHANGED il_vars

\* HarvestError without the selector.unregister(fd) of line 161.
HarvestError_keepreg ==
    /\ pc = "harvest"
    /\ events # <<>>
    /\ fate[Head(events)] = "pending_err"
    /\ exceptions' = Record(exceptions,
                            [cand |-> Head(events), src |-> "so_error", note |-> TRUE])
    /\ closed' = closed \cup {Head(events)}
    /\ closes' = [closes EXCEPT ![Head(events)] = @ + 1]
    /\ events' = Tail(events)
    /\ UNCHANGED <<ncand, fate, nxt, delay, timeout, clock, now, made, returned, outcome,
                   selmap, pc, result>>
    /\ UNCHANGED <<admitted, polled, waited>>
    /\ UNCHANGED il_vars

\* Lines 156-173: the next ready key has SO_ERROR # 0: unregister, raise
\* OSError, which the except clause notes, records, and closes the socket.
HarvestError ==
    /\ pc = "harvest"
    /\ events # <<>>
    /\ fate[Head(events)] = "pending_err"
    /\ selmap' = selmap \ {Head(events)}
    /\ IF IsInstance("OSError", "BaseException")
       THEN /\ exceptions' = Record(exceptions,
                                    [cand |-> Head(events), src |-> "so_error", note |-> TRUE])
            /\ closed' = closed \cup {Head(events)}
            /\ closes' = [closes EXCEPT ![Head(events)] = @ + 1]
            /\ events' = Tail(events)
            /\ UNCHANGED <<pc, result>>
       ELSE /\ Escape
            /\ events' = <<>>
            /\ UNCHANGED <<exceptions, closed, closes>>
    /\ UNCHANGED <<ncand, fate, nxt, delay, timeout, clock, now, made, returned, outcome>>
    /\ UNCHANGED <<admitted, polled, waited>>
    /\ UNCHANGED il_vars

\* Lines 176-179: the for loop is over and delay is zero: raise TimeoutError.
RaiseTimeout ==
    /\ pc = "harvest"
    /\ events = <<>>
    /\ delay = 0
    /\ result' = "TimeoutError"
    /\ pc' = "finally"
    /\ UNCHANGED <<ncand, fate, nxt, delay, timeout, clock, now, made, closed, selmap,
                   events, exceptions, returned, outcome>>
    /\ UNCHANGED hist_vars
    /\ UNCHANGED il_vars

\* LoopAgain without the test of line 176: the loop goes on with delay zero.
LoopAgain_always ==
    /\ pc = "harvest"
    /\ events = <<>>
    /\ pc' = "top"
    /\ UNCHANGED <<ncand, fate, nxt, delay, timeout, clock, now, made, closed, selmap,
                   events, exceptions, result, returned, outcome>>
    /\ UNCHANGED hist_vars
    /\ UNCHANGED il_vars

\* Line 176 false: back to line 108.
LoopAgain ==
    /\ pc = "harvest"
    /\ events = <<>>
    /\ delay # 0
    /\ pc' = "top"
    /\ UNCHANGED <<ncand, fate, nxt, delay, timeout, clock, now, made, closed, selmap,
                   events, exceptions, result, returned, outcome>>
    /\ UNCHANGED hist_vars
    /\ UNCHANGED il_vars

\* Lines 183-184: the sockets the finally block closes.
CleanupCloses_none(map) == {}   \* variant: the loop of line 183 closes nothing
CleanupCloses(map) == map

\* Lines 181-185: close every socket still registered, close the selector;
\* then the return or the exception takes effect, or control reaches line 187.
Cleanup ==
    /\ pc = "finally"
    /\ closed' = closed \cup CleanupCloses(selmap)
    /\ closes' = [i \in DOMAIN closes |->
                    IF i \in CleanupCloses(selmap) THEN closes[i] + 1 ELSE closes[i]]
    /\ selmap' = {}
    /\ IF result = "break"
       THEN pc' = "raise" /\ UNCHANGED outcome
       ELSE /\ pc' = "done"
            /\ outcome' = IF result = "return" THEN "socket" ELSE result
    /\ UNCHANGED <<ncand, fate, nxt, delay, timeout, clock, now, made, events,
                   exceptions, result, returned>>
    /\ UNCHANGED <<admitted, polled, waited>>
    /\ UNCHANGED il_vars

\* Line 187: raise FailedToConnect(..., exceptions).  FailedToConnect is an
\* ExceptionGroup (line 27), whose constructor raises ValueError when the
\* list of exceptions is empty.
RaiseFailed ==
    /\ pc = "raise"
    /\ outcome' = IF exceptions = <<>> THEN "ValueError" ELSE "FailedToConnect"
    /\ pc' = "done"
    /\ UNCHANGED <<ncand, fate, nxt, delay, timeout, clock, now, made, closed, selmap,
                   events, exceptions, result, returned>>
    /\ UNCHANGED hist_vars
    /\ UNCHANGED il_vars

\* The steps of connect_addresses itself.
Program ==
    \/ AdmitNone
    \/ AdmitConstructFail
    \/ AdmitConnected
    \/ AdmitBlocking
    \/ AdmitConnectFail
    \/ BreakEmpty
    \/ ClampDelay
    \/ Select
    \/ HarvestConnected
    \/ HarvestError
    \/ RaiseTimeout
    \/ LoopAgain
    \/ Cleanup
    \/ RaiseFailed

Next ==
    \/ Tick
    \/ Program

Spec == Init /\ [][Next]_vars

\* The calls made with a timeout.  connect_addresses runs in the caller's
\* thread and blocks only inside select(delay), which returns after delay at
\* the latest: a step of the function that can be taken is taken.
InitTimed == Init /\ timeout > 0
SpecTimed == InitTimed /\ [][Next]_vars /\ WF_vars(Program)

\* ------------------------------------------------- claims on connect_addresses

\* C1: when connect_addresses has ended, however it ended, every socket that
\* socket_factory returned during the call has been closed, except the socket
\* returned to the caller, which was never closed; a socket is returned
\* exactly when the outcome is success.
C1_ResourceSafety ==
    pc = "done" =>
        /\ \A s \in made : s = returned \/ s \in closed
        /\ returned # 0 => (returned \in made /\ returned \notin closed)
        /\ (outcome = "socket") <=> (returned # 0)
        /\ selmap = {}

\* C1 witness: a call that returned a socket after closing two others.
C1_Witness ==
    /\ pc = "done"
    /\ outcome = "socket"
    /\ Cardinality(closed) >= 2
    /\ \E s \in closed : fate[s] = "pending_never"

\* C2 (the claim as stated): the loop is left for the aggregate failure only
\* with the candidate iterator exhausted and no attempt pending.
C2_FailedOnlyWhenExhausted ==
    (result = "break" \/ outcome = "FailedToConnect") => (nxt > ncand /\ selmap = {})

\* The call is made without a timeout and with a positive stagger delay, and
\* every candidate gets a socket whose connect fails, at once or when harvested.
AllConnectsFail ==
    /\ timeout = 0
    /\ delay > 0
    /\ \A i \in 1..ncand : fate[i] \in {"refused", "pending_err"}

\* The number of entries of the list `exceptions` that pertain to candidate i.
ErrorsOf(i) == Cardinality({k \in 1..Len(exceptions) : exceptions[k].cand = i})

\* C3 (the claim as stated): without a timeout, with delay > 0 and N
\* candidates whose connects all fail, the call ends with FailedToConnect and
\* the list it carries holds exactly N errors, one for each candidate.
C3_FailureCount ==
    (AllConnectsFail /\ pc = "done") =>
        /\ outcome = "FailedToConnect"
        /\ Len(exceptions) = ncand
        /\ \A i \in 1..ncand : ErrorsOf(i) = 1

\* What holds of the count: for N >= 1 the claim is true of every run, and
\* no error is recorded twice on the way.
FailureCountNonEmpty ==
    (AllConnectsFail /\ ncand >= 1) =>
        /\ \A i \in 1..ncand : ErrorsOf(i) <= 1
        /\ outcome \in {"none", "FailedToConnect"}
        /\ pc \in {"raise", "done"} =>
              /\ Len(exceptions) = ncand
              /\ \A i \in 1..ncand : ErrorsOf(i) = 1

\* C4 (the claim as stated): the errors of the aggregate failure are listed
\* in the order in which their candidates were admitted.
C4_AdmissionOrder ==
    outcome = "FailedToConnect" =>
        \A k, m \in 1..Len(exceptions) : k < m => exceptions[k].cand < exceptions[m].cand

\* C4 (amended): the errors are listed in the order in which the failures
\* were detected.  An error stands behind the error of a later-admitted
\* candidate only if it is the pending error of an attempt that was harvested
\* (SO_ERROR); construction and synchronous connect errors never stand behind
\* an error of a later-admitted candidate, and no candidate is listed twice.
C4_DetectionOrder ==
    \A k, m \in 1..Len(exceptions) :
        k < m =>
            /\ exceptions[k].cand # exceptions[m].cand
            /\ exceptions[k].cand > exceptions[m].cand => exceptions[m].src = "so_error"

\* C4 witness: an aggregate failure whose list is not in admission order,
\* and that also holds an error recorded at admission.
C4_Witness ==
    /\ outcome = "FailedToConnect"
    /\ \E k, m \in 1..Len(exceptions) : k < m /\ exceptions[k].cand > exceptions[m].cand
    /\ \E k \in 1..Len(exceptions) : exceptions[k].src = "connect"

\* C5 (the claim as stated): called with timeout = 0, connect_addresses never
\* ends with TimeoutError, whatever the delay.
C5_NoTimeoutWhenUnset ==
    timeout = 0 => (result # "TimeoutError" /\ outcome # "TimeoutError")

\* With a timeout set, no candidate's connect ever succeeds and some
\* candidate's attempt stays pending for ever.
NoneSucceedsOnePends ==
    /\ timeout > 0
    /\ \A i \in 1..ncand : fate[i] \notin {"connected", "pending_ok"}
    /\ \E i \in 1..ncand : fate[i] = "pending_never"

\* C6 (the claim as stated): with timeout > 0, no successful candidate and a
\* candidate that would stay pending past the budget, the call ends with
\* TimeoutError and never with the aggregate failure.
C6_TimeoutPrecedence ==
    (NoneSucceedsOnePends /\ pc = "done") => outcome = "TimeoutError"

\* A candidate's connect succeeded synchronously and its socket is the winner.
SyncWon == returned # 0 /\ fate[returned] = "connected"

\* C7: when the connect of an admitted candidate succeeds synchronously, that
\* step leaves the loop with that candidate's socket as the return value;
\* from then on no candidate is dequeued, no socket is constructed and no
\* poll is performed, and when the call returns every socket that was still
\* registered has been closed.
C7_SyncWin ==
    /\ [][(pc = "top" /\ nxt <= ncand /\ fate[nxt] = "connected" /\ nxt' # nxt)
            => (returned' = nxt /\ result' = "return" /\ pc' = "finally"
                /\ selmap' = selmap /\ closed' = closed)]_vars
    /\ [][SyncWon => (/\ nxt' = nxt
                      /\ made' = made
                      /\ returned' = returned
                      /\ pc' \in {"finally", "done"})]_vars
    /\ []((SyncWon /\ pc = "done") =>
            (/\ outcome = "socket"
             /\ selmap = {}
             /\ returned \notin closed
             /\ \A s \in made \ {returned} : s \in closed))

\* C7 witness: a synchronous win with two attempts pending, both closed at
\* the return.
C7_Witness ==
    /\ SyncWon
    /\ pc = "done"
    /\ returned = 3
    /\ \A s \in {1, 2} : s \in made /\ s \in closed /\ fate[s] \in {"pending_ok", "pending_never"}

\* C10 (the claim as stated): every call ends with a returned socket, with
\* TimeoutError or with FailedToConnect.
C10_ThreeOutcomes ==
    pc = "done" => outcome \in {"socket", "TimeoutError", "FailedToConnect"}

\* C11 (the claim as stated): every entry of the list `exceptions`, whatever
\* call raised it, carries the note with its candidate's address.
C11_EveryErrorTagged ==
    \A k \in 1..Len(exceptions) : exceptions[k].note

\* C12 (the claim as stated): the candidate that follows one whose socket
\* construction failed is admitted with no poll of the selector in between,
\* also when other attempts are pending.
C12_NoPollAfterConstructFail ==
    [][(nxt' = nxt + 1 /\ nxt > 1 /\ fate[nxt - 1] = "ctor_fail") => ~polled]_vars

\* C13 (the claim as stated): when TimeoutError is raised, at least one
\* attempt is still registered as pending.
C13_TimeoutOnlyWithPending ==
    (result = "TimeoutError" /\ pc = "finally") => selmap # {}

\* C13 (amended): TimeoutError is raised only with delay zero, after a poll
\* that was made with at least one attempt registered; when the harvest of a
\* poll leaves nothing registered, the loop raises TimeoutError if delay is
\* zero and goes on to the next iteration otherwise; the loop is left by
\* break only with nothing registered.
C13_TimeoutAfterZeroPoll ==
    /\ [](pc = "select" => selmap # {})
    /\ [](result = "TimeoutError" => (delay = 0 /\ polled))
    /\ [](result = "break" => selmap = {})
    /\ [][(pc = "harvest" /\ events = <<>> /\ selmap = {} /\ pc' # pc)
            => IF delay = 0 THEN (result' = "TimeoutError" /\ pc' = "finally")
                            ELSE (result' = result /\ pc' = "top")]_vars

\* C13 witness: with a timeout set, TimeoutError is about to be raised with
\* nothing pending and no candidate left, errors having been recorded.
C13_Witness ==
    /\ result = "TimeoutError"
    /\ pc = "finally"
    /\ timeout > 0
    /\ selmap = {}
    /\ nxt > ncand
    /\ exceptions # <<>>

\* The iteration under way computed a remaining budget of zero at line 146
\* and is at its poll or its harvest.
ZeroBudgetIteration ==
    /\ timeout > 0
    /\ timeout - now <= 0
    /\ pc \in {"select", "harvest"}

\* C14 (the claim as stated): in an iteration that computed a remaining
\* budget of zero no socket is returned and no error is recorded.
C14_RaiseBeforeHarvest ==
    [][ZeroBudgetIteration => (returned' = returned /\ exceptions' = exceptions)]_vars

\* C14 (amended): an iteration that computed a remaining budget of zero has
\* delay zero; it polls once without waiting and harvests what is ready, and
\* it ends either by returning a ready socket or by raising TimeoutError:
\* the loop never goes on to another iteration.
C14_ZeroBudgetEndsLoop ==
    /\ [](ZeroBudgetIteration => delay = 0)
    /\ [][ZeroBudgetIteration =>
            (/\ waited' = waited
             /\ nxt' = nxt
             /\ \/ pc' \in {"select", "harvest"}
                \/ pc' = "finally" /\ result' \in {"return", "TimeoutError"})]_vars

\* C14 witness: a socket found ready by the poll of a zero-budget iteration
\* is returned, after an error was recorded in that same harvest.
C14_Witness ==
    /\ timeout > 0
    /\ timeout - now <= 0
    /\ pc = "finally"
    /\ result = "return"
    /\ fate[returned] = "pending_ok"
    /\ \E k \in 1..Len(exceptions) : exceptions[k].src = "so_error"

\* C15 (the claim as stated): between any two successive admissions the
\* selector is polled at least once.
C15_PollBetweenAdmissions ==
    [][(nxt' # nxt /\ nxt > 1) => polled]_vars

\* C15 (amended): a step admits at most one candidate, at the head of an
\* iteration; between two successive admissions the selector is polled,
\* except after a synchronous connect failure: then, and only then, the next
\* candidate is admitted with no poll in between.
C15_Pacing ==
    /\ [][nxt' # nxt => (pc = "top" /\ nxt' = nxt + 1 /\ Len(admitted') = Len(admitted) + 1)]_vars
    /\ [][(nxt' # nxt /\ nxt > 1) => (polled <=> fate[nxt - 1] # "refused")]_vars

\* C15 witness: the second candidate was admitted right after the first was
\* refused, the third after a poll.
C15_Witness ==
    /\ admitted = <<1, 2, 3>>
    /\ fate[1] = "refused"
    /\ fate[2] \in {"pending_ok", "pending_err", "pending_never"}
    /\ pc = "check"

\* C16: the candidates are dequeued in the order of the sequence, each once:
\* the admitted candidates are always the first nxt - 1 of the sequence, a
\* socket is only ever made for the candidate just dequeued, and that
\* candidate has none yet.
C16_AdmissionOrder ==
    /\ [](/\ nxt \in 1..(ncand + 1)
          /\ admitted = [k \in 1..(nxt - 1) |-> k]
          /\ \A s \in made : \E k \in 1..Len(admitted) : admitted[k] = s)
    /\ [][made' # made => (/\ nxt \notin made
                            /\ made' = made \cup {nxt}
                            /\ admitted' = Append(admitted, nxt))]_vars

\* C16 witness: three candidates were dequeued, a refused one among them.
C16_Witness ==
    /\ admitted = <<1, 2, 3>>
    /\ \E i \in 1..3 : fate[i] = "refused"
    /\ Cardinality(made) = 3

\* C18 (the claim as stated): called with a timeout, connect_addresses
\* never waits in its polls for more than the timeout in sum, and it ends
\* with a socket, with FailedToConnect or with TimeoutError.
C18_BoundedRace ==
    timeout > 0 =>
        /\ waited <= timeout
        /\ pc = "done" => outcome \in {"socket", "FailedToConnect", "TimeoutError"}

\* What does hold of a call with a timeout: it ends in every run, also when
\* pending attempts never become ready; the poll waits never add up to more
\* than the timeout; delay never grows.
TimedRaceEnds ==
    /\ [](timeout > 0 => waited <= timeout)
    /\ [][delay' <= delay]_vars
    /\ <>(pc = "done")

\* C19 (the claim as stated): without a timeout and with delay > 0 the loop
\* is left by break only when the iterator is exhausted and nothing is
\* pending, and the call ends with a socket or with FailedToConnect.
C19_ExitOnlyWhenExhausted ==
    (timeout = 0 /\ delay > 0) =>
        /\ result = "break" => (nxt > ncand /\ selmap = {})
        /\ pc = "done" => outcome \in {"socket", "FailedToConnect"}

\* C20: every socket made is in exactly one of the states registered,
\* closed, returned; no socket is closed twice; a socket is closed or
\* returned by a step of the loop only unregistered, and the returned socket
\* is a socket that was made and is neither closed nor registered.
C20_SocketLifecycle ==
    /\ [](/\ selmap \subseteq made
          /\ closed \subseteq made
          /\ \A s \in made :
                /\ s \in selmap => (s \notin closed /\ s # returned)
                /\ s \in closed => s # returned
                /\ s \in selmap \/ s \in closed \/ s = returned
          /\ \A i \in DOMAIN closes : closes[i] = IF i \in closed THEN 1 ELSE 0
          /\ returned # 0 => returned \in made)
    /\ [][/\ \A s \in closed' \ closed : s \notin selmap' /\ s \notin closed
          /\ returned' # returned =>
                (returned = 0 /\ returned' \notin selmap' /\ returned' \notin closed')]_vars

\* C20 witness: at the end one socket is returned from the harvest, one was
\* closed at its harvest and one was closed, still registered, by the
\* finally block.
C20_Witness ==
    /\ pc = "done"
    /\ returned # 0
    /\ fate[returned] = "pending_ok"
    /\ \E s \in closed : fate[s] = "pending_err"
    /\ \E s \in closed : fate[s] = "pending_never"

\* ------------------------------------------------------- interleave_family
Families == {"AF_INET", "AF_INET6", "AF_UNIX"}

\* The lists of at most n address infos: info[0] is the family, and the rest of
\* the tuple is told apart by its position in the list.
Infos(n) ==
    UNION {{[k \in 1..len |-> [family |-> fs[k], id |-> k]] : fs \in [1..len -> Families]}
           : len \in 0..n}

\* Position of family f among the keys of dict g, 0 when it is no key.
KeyIndex(g, f) ==
    IF \E k \in 1..Len(g) : g[k].family = f
    THEN CHOOSE k \in 1..Len(g) : g[k].family = f
    ELSE 0

\* Line 36: grouped[info[0]].append(info); a new key goes last (dict order).
\* (variant GroupAppend_front: a new key goes first)
GroupAppend_front(g, info) ==
    IF KeyIndex(g, info.family) = 0
    THEN <<[family |-> info.family, values |-> <<info>>]>> \o g
    ELSE [g EXCEPT ![KeyIndex(g, info.family)].values = Append(@, info)]
GroupAppend(g, info) ==
    IF KeyIndex(g, info.family) = 0
    THEN Append(g, [family |-> info.family, values |-> <<info>>])
    ELSE [g EXCEPT ![KeyIndex(g, info.family)].values = Append(@, info)]

\* Line 42: values.popleft() as <<the element, the rest of the deque>>.
\* (variant PopLeft_right: values.pop())
PopLeft_right(values) == <<values[Len(values)], SubSeq(values, 1, Len(values) - 1)>>
PopLeft(values) == <<Head(values), Tail(values)>>

\* Lines 46-47: grouped.pop(family) for every family in exhausted.
PopExhausted(g, ex) ==
    SelectSeq(g, LAMBDA e : \A k \in 1..Len(ex) : ex[k] # e.family)

RacerIdle ==
    /\ ncand = 0 /\ fate = <<>> /\ nxt = 1 /\ delay = 0 /\ timeout = 0 /\ clock = 0
    /\ now = 0 /\ made = {} /\ closed = {} /\ selmap = {} /\ events = <<>>
    /\ exceptions = <<>> /\ pc = "idle" /\ result = "none" /\ returned = 0
    /\ outcome = "none"
    /\ admitted = <<>> /\ polled = FALSE /\ waited = 0 /\ closes = <<>>

\* interleave_family(infos) is called: line 34.
InitIL ==
    /\ RacerIdle
    /\ il_infos \in Infos(MaxLen)
    /\ il_grouped = <<>>
    /\ il_k = 1
    /\ il_exhausted = <<>>
    /\ il_out = <<>>
    /\ il_first = <<>>
    /\ il_run = 1
    /\ il_pc = "group"

\* Lines 35-36: one turn of `for info in infos`.
ILGroup ==
    /\ il_pc = "group"
    /\ il_k <= Len(il_infos)
    /\ il_grouped' = GroupAppend(il_grouped, il_infos[il_k])
    /\ il_k' = il_k + 1
    /\ UNCHANGED <<il_infos, il_exhausted, il_out, il_first, il_run, il_pc>>
    /\ UNCHANGED <<racer_vars, hist_vars>>

\* Lines 38-40: (the grouping is over, or a pass ended with families left)
\* exhausted = [] and the for loop over grouped.items() starts.
ILBeginPass ==
    /\ \/ il_pc = "group" /\ il_k > Len(il_infos)
       \/ il_pc = "while"
    /\ il_exhausted' = <<>>
    /\ il_k' = 1
    /\ il_pc' = "for"
    /\ UNCHANGED <<il_infos, il_grouped, il_out, il_first, il_run>>
    /\ UNCHANGED <<racer_vars, hist_vars>>

\* ILYield yielding the whole deque of the family (yield from values).
ILYield_drain ==
    /\ il_pc = "for"
    /\ il_k <= Len(il_grouped)
    /\ il_grouped[il_k].values # <<>>
    /\ il_out' = il_out \o il_grouped[il_k].values
    /\ il_grouped' = [il_grouped EXCEPT ![il_k].values = <<>>]
    /\ il_k' = il_k + 1
    /\ UNCHANGED <<il_infos, il_exhausted, il_first, il_run, il_pc>>
    /\ UNCHANGED <<racer_vars, hist_vars>>

\* Lines 41-42: the family's deque is not empty: yield values.popleft().
ILYield ==
    /\ il_pc = "for"
    /\ il_k <= Len(il_grouped)
    /\ il_grouped[il_k].values # <<>>
    /\ il_out' = Append(il_out, PopLeft(il_grouped[il_k].values)[1])
    /\ il_grouped' = [il_grouped EXCEPT ![il_k].values = PopLeft(@)[2]]
    /\ il_k' = il_k + 1
    /\ UNCHANGED <<il_infos, il_exhausted, il_first, il_run, il_pc>>
    /\ UNCHANGED <<racer_vars, hist_vars>>

\* Lines 43-44: the family's deque is empty: exhausted.append(family).
ILExhausted ==
    /\ il_pc = "for"
    /\ il_k <= Len(il_grouped)
    /\ il_grouped[il_k].values = <<>>
    /\ il_exhausted' = Append(il_exhausted, il_grouped[il_k].family)
    /\ il_k' = il_k + 1
    /\ UNCHANGED <<il_infos, il_grouped, il_out, il_first, il_run, il_pc>>
    /\ UNCHANGED <<racer_vars, hist_vars>>

\* Lines 46-50: the pass is over: pop the exhausted families, break when
\* grouped is empty.
ILEndPass ==
    /\ il_pc = "for"
    /\ il_k > Len(il_grouped)
    /\ il_grouped' = PopExhausted(il_grouped, il_exhausted)
    /\ il_pc' = IF il_grouped' = <<>> THEN "end" ELSE "while"
    /\ UNCHANGED <<il_infos, il_k, il_exhausted, il_out, il_first, il_run>>
    /\ UNCHANGED <<racer_vars, hist_vars>>

\* The caller collects the output and calls interleave_family on it:
\* interleave_family(list(interleave_family(x))).
ILReapply ==
    /\ il_pc = "end"
    /\ il_run = 1
    /\ il_first' = il_out
    /\ il_infos' = il_out
    /\ il_grouped' = <<>>
    /\ il_k' = 1
    /\ il_exhausted' = <<>>
    /\ il_out' = <<>>
    /\ il_run' = 2
    /\ il_pc' = "group"
    /\ UNCHANGED <<racer_vars, hist_vars>>

NextIL ==
    \/ ILGroup
    \/ ILBeginPass
    \/ ILYield
    \/ ILExhausted
    \/ ILEndPass
    \/ ILReapply

SpecIL == InitIL /\ [][NextIL]_vars

\* ------------------------------------------------- claims on interleave_family

\* The reference round-robin of the specification: the families in the order
\* they first appear in xs ...
RECURSIVE FamilyOrder(_)
FamilyOrder(xs) ==
    IF xs = <<>> THEN <<>>
    ELSE LET before == FamilyOrder(SubSeq(xs, 1, Len(xs) - 1))
             f == xs[Len(xs)].family
         IN IF \E k \in 1..Len(before) : before[k] = f THEN before ELSE Append(before, f)

\* ... the queue of family f, in arrival order ...
QueueOf(xs, f) == SelectSeq(xs, LAMBDA x : x.family = f)

\* ... round r takes the r-th element of every queue that has one, the
\* families in their order ...
RECURSIVE TakeRound(_, _, _)
TakeRound(xs, fams, r) ==
    IF fams = <<>> THEN <<>>
    ELSE (IF Len(QueueOf(xs, Head(fams))) >= r THEN <<QueueOf(xs, Head(fams))[r]>> ELSE <<>>)
         \o TakeRound(xs, Tail(fams), r)

\* ... and the rounds follow each other until the queues are empty.
RECURSIVE RoundsFrom(_, _)
RoundsFrom(xs, r) ==
    IF r > Len(xs) THEN <<>> ELSE TakeRound(xs, FamilyOrder(xs), r) \o RoundsFrom(xs, r + 1)

RoundRobin(xs) == RoundsFrom(xs, 1)

FamiliesOf(xs) == [k \in 1..Len(xs) |-> xs[k].family]
IdsOf(xs) == [k \in 1..Len(xs) |-> xs[k].id]
SingleFamily(xs) == \A k, m \in 1..Len(xs) : xs[k].family = xs[m].family

\* C8: when interleave_family is exhausted, what it yielded is the reference
\* round-robin of its input; in particular families [A,A,A,B] give [A,B,A,A]
\* (ids 1,4,2,3), [A,B] gives [A,B], a single-family input comes out
\* unchanged and the empty input yields nothing.
C8_RoundRobin ==
    il_pc = "end" =>
        /\ il_out = RoundRobin(il_infos)
        /\ FamiliesOf(il_infos) = <<"AF_INET", "AF_INET", "AF_INET", "AF_INET6">>
              => (FamiliesOf(il_out) = <<"AF_INET", "AF_INET6", "AF_INET", "AF_INET">>
                  /\ IdsOf(il_out) = <<1, 4, 2, 3>>)
        /\ FamiliesOf(il_infos) = <<"AF_INET", "AF_INET6">> => il_out = il_infos
        /\ SingleFamily(il_infos) => il_out = il_infos
        /\ il_infos = <<>> => il_out = <<>>

\* C8 witness: the first application, on families [A,A,A,B], has ended.
C8_Witness ==
    /\ il_pc = "end"
    /\ il_run = 1
    /\ FamiliesOf(il_infos) = <<"AF_INET", "AF_INET", "AF_INET", "AF_INET6">>
    /\ IdsOf(il_out) = <<1, 4, 2, 3>>

\* C9: interleave_family applied to the list of its own output yields that
\* list again.
C9_Idempotent ==
    (il_pc = "end" /\ il_run = 2) => il_out = il_first

\* C9 witness: the second application has ended, on an output in which the
\* first application had moved an element forward.
C9_Witness ==
    /\ il_pc = "end"
    /\ il_run = 2
    /\ Len(il_out) = 4
    /\ \E k \in 1..3 : il_first[k].id > il_first[k + 1].id

\* The elements of the input not among the first k yielded.
RemainingAfter(k) ==
    {il_infos[j] : j \in 1..Len(il_infos)} \ {il_out[j] : j \in 1..k}

\* The families of the input, and the first element of family f in it.
FamilySet == {il_infos[j].family : j \in 1..Len(il_infos)}
FirstOf(f) == il_infos[CHOOSE j \in 1..Len(il_infos) :
                          /\ il_infos[j].family = f
                          /\ \A m \in 1..(j - 1) : il_infos[m].family # f]

\* C17: whenever two consecutive yielded elements are of the same family,
\* every element not yet yielded before the second of them was of that
\* family; and when the generator is exhausted, the first element of each of
\* the F families is among the first F elements yielded.
C17_Fairness ==
    /\ \A k \in 1..(Len(il_out) - 1) :
          il_out[k].family = il_out[k + 1].family =>
              \A x \in RemainingAfter(k) : x.family = il_out[k].family
    /\ il_pc = "end" =>
          \A f \in FamilySet :
              \E k \in 1..Cardinality(FamilySet) : k <= Len(il_out) /\ il_out[k] = FirstOf(f)

\* C17 witness: two families, one of which had two elements left when the
\* other was exhausted, so that the last two yielded are of one family.
C17_Witness ==
    /\ il_pc = "end"
    /\ il_run = 1
    /\ Cardinality(FamilySet) = 2
    /\ Len(il_out) = 4
    /\ il_out[1].family # il_out[2].family
    /\ il_out[3].family = il_out[4].family

====
